---------------------------- MODULE Spec2Model ----------------------------
(***************************************************************************)
(* A model of mindboggle's multilabel.py: combine_labels, read_annot,      *)
(* load_labels, vote_labels and labeling.                                  *)
(*                                                                         *)
(* Python sequences are 0-based, TLA+ sequences are 1-based: vertex v of   *)
(* the code is position v + 1 of the model, file i of the code is          *)
(* position i + 1.                                                         *)
(***************************************************************************)
EXTENDS Integers, Sequences, FiniteSets, TLC

VARIABLES
    \* ---- labeling / vote_labels ----
    left_labels,      \* list of label vectors, one per left annotation file
    right_labels,     \* list of label vectors, one per right annotation file
    pc,               \* position in the running function
    exc,              \* exception that ended the run, "none" while there is none
    left_n_labels,    \* vote_labels local
    right_n_labels,   \* vote_labels local
    left_assign,      \* vote_labels local
    right_assign,     \* vote_labels local
    left_consensus,   \* vote_labels local, bound only if compute_diff_consensus
    right_consensus,
    left_diff,
    right_diff,
    returned,         \* what vote_labels handed back to labeling
    written,          \* the scalar fields labeling handed to the mesh writer
    \* ---- read_annot ----
    fobj,             \* the open file: its cells, one per int32 field or string byte
    fpos,             \* cells of fobj consumed so far
    orig_ids,         \* the argument orig_ids
    vnum,             \* read_annot local
    labels,           \* read_annot local
    ctab_exists,      \* read_annot local
    n_entries,        \* read_annot local
    ctab,             \* read_annot local: rows <<R, G, B, A, packed id>>
    names,            \* read_annot local
    annot_ret,        \* what read_annot returned: <<labels, ctab, names>>
    \* ---- combine_labels ----
    label_index,      \* the argument of combine_labels
    combined,         \* combine_labels(label_index)
    recombined        \* combine_labels of that result

voteVars == <<left_labels, right_labels, left_n_labels, right_n_labels,
              left_assign, right_assign, left_consensus, right_consensus,
              left_diff, right_diff, returned, written>>

annotVars == <<fobj, fpos, orig_ids, vnum, labels, ctab_exists, n_entries,
               ctab, names, annot_ret>>

combineVars == <<label_index, combined, recombined>>

vars == <<pc, exc, voteVars, annotVars, combineVars>>

-----------------------------------------------------------------------------
(* combine_labels *)

\* a changed combine_labels: 20 is left out of the last group
combine_labels_without_20(id) ==
    IF id = 10 \/ id = 23 \/ id = 26 THEN 2
    ELSE IF id = 27 THEN 3
    ELSE IF id = 19 THEN 18
    ELSE id

combine_labels(id) ==
    IF id = 10 \/ id = 23 \/ id = 26 THEN 2
    ELSE IF id = 27 THEN 3
    ELSE IF id = 19 \/ id = 20 THEN 18
    ELSE id

-----------------------------------------------------------------------------
(* Bounds and inputs of the voting model *)

\* longest label vector (number of vertices of a hemisphere)
MaxVertices == 1

\* raw label ids of the annotation files; load_labels combines them
RawIds == {2, 10, 27, 19}

\* the labels that reach vote_labels: load_labels maps combine_labels over
\* every decoded vector
Labels == {combine_labels(i) : i \in RawIds}

Vectors == UNION {[1..n -> Labels] : n \in 0..MaxVertices}

\* the hard-coded number of contributing files, xrange(21)
VOTERS == 21

\* the hard-coded flags of vote_labels and labeling
compute_diff_consensus == 0

save_inflated == 0

Rep(v, n) == [i \in 1..n |-> v]

Half == VOTERS \div 2

\* run lengths <<i, j, k>> of a collection a^i b^j c^k: sizes 0, 1, 2, around
\* the hard-coded count, and the splits that produce ties
Shapes ==
    { <<0, 0, 0>>, <<1, 0, 0>>, <<1, 1, 0>>,
      <<VOTERS - 1, 0, 0>>, <<VOTERS, 0, 0>>, <<VOTERS + 1, 0, 0>>,
      <<1, VOTERS - 1, 0>>, <<VOTERS - 1, 1, 0>>, <<VOTERS, 1, 0>>,
      <<Half, Half, 1>>, <<1, Half, Half>>, <<Half + 1, Half + 1, 0>> }

Collections ==
    { Rep(a, s[1]) \o Rep(b, s[2]) \o Rep(c, s[3]) :
        a \in Vectors, b \in Vectors, c \in Vectors, s \in Shapes }

\* vectors of one repeated label, for the other hemisphere
PlainVectors == {Rep(combine_labels(2), n) : n \in 0..MaxVertices}

\* the other hemisphere: no file, a full set of identical files, one file too
\* many, a last file of another length
Siblings ==
    { <<>> } \cup
    UNION { { Rep(a, VOTERS), Rep(a, VOTERS + 1), Rep(a, VOTERS - 1) \o <<b>> } :
              a \in PlainVectors, b \in PlainVectors }

-----------------------------------------------------------------------------
(* vote_labels *)

\* a changed first_len: an empty collection has vectors of length 0
first_len_empty_ok(coll) ==
    IF Len(coll) = 0 THEN <<0>> ELSE <<Len(coll[1])>>

\* len(labels[0]): <<n>> when labels[0] exists, <<>> when the index raises
first_len(coll) ==
    IF Len(coll) = 0 THEN <<>> ELSE <<Len(coll[1])>>

\* [labels[i][vertex] for i in xrange(21)] raises no IndexError
can_tally(coll, vertex) ==
    \A i \in 1..VOTERS : i <= Len(coll) /\ vertex <= Len(coll[i])

\* Counter([labels[i][vertex] for i in xrange(21)]): label -> count
votes(coll, vertex) ==
    LET tallied == {coll[i][vertex] : i \in 1..VOTERS}
    IN  [l \in tallied |-> Cardinality({i \in 1..VOTERS : coll[i][vertex] = l})]

\* votes.most_common(1)[0]: a <<label, count>> of maximal count.  Python 2's
\* Counter orders elements of equal count arbitrarily (the order of its dict),
\* so every label of maximal count is a possible outcome.
most_common(v) ==
    { <<l, v[l]>> : l \in {k \in DOMAIN v : \A m \in DOMAIN v : v[m] <= v[k]} }

\* len(votes)
n_distinct(v) == Cardinality(DOMAIN v)

\* the vectors the loop "for vertex in xrange(n_labels)" can leave in assign
assign_outcomes(coll, n_labels) ==
    { a \in [1..n_labels -> Labels] :
        \A vertex \in 1..n_labels :
            \E w \in most_common(votes(coll, vertex)) : a[vertex] = w[1] }

\* an uncaught exception unwinds vote_labels and labeling: the locals are gone
Raise(e) ==
    /\ pc' = "raised"
    /\ exc' = e
    /\ left_n_labels' = 0
    /\ right_n_labels' = 0
    /\ left_assign' = <<>>
    /\ right_assign' = <<>>
    /\ left_consensus' = <<>>
    /\ right_consensus' = <<>>
    /\ left_diff' = <<>>
    /\ right_diff' = <<>>
    /\ UNCHANGED <<left_labels, right_labels, returned, written>>
    /\ UNCHANGED <<annotVars, combineVars>>

\* lines 191-200
VoteEnter ==
    /\ pc = "vote_labels"
    /\ IF first_len(left_labels) = <<>> \/ first_len(right_labels) = <<>>
       THEN Raise("IndexError")
       ELSE /\ left_n_labels' = first_len(left_labels)[1]
            /\ right_n_labels' = first_len(right_labels)[1]
            /\ left_assign' = Rep(-1, first_len(left_labels)[1])
            /\ right_assign' = Rep(-1, first_len(right_labels)[1])
            /\ IF compute_diff_consensus # 0
               THEN /\ left_diff' = Rep(1, first_len(left_labels)[1])
                    /\ right_diff' = Rep(1, first_len(right_labels)[1])
                    /\ left_consensus' = Rep(21, first_len(left_labels)[1])
                    /\ right_consensus' = Rep(21, first_len(right_labels)[1])
               ELSE UNCHANGED <<left_diff, right_diff,
                               left_consensus, right_consensus>>
            /\ pc' = "left_loop"
            /\ UNCHANGED <<left_labels, right_labels, exc, returned, written>>
            /\ UNCHANGED <<annotVars, combineVars>>

\* lines 202-208
VoteLeft ==
    /\ pc = "left_loop"
    /\ IF \A vertex \in 1..left_n_labels : can_tally(left_labels, vertex)
       THEN /\ left_assign' \in assign_outcomes(left_labels, left_n_labels)
            /\ IF compute_diff_consensus # 0
               THEN /\ left_consensus' =
                          [vertex \in 1..left_n_labels |->
                              (CHOOSE w \in most_common(votes(left_labels, vertex)) : TRUE)[2]]
                    /\ left_diff' =
                          [vertex \in 1..left_n_labels |->
                              n_distinct(votes(left_labels, vertex))]
               ELSE UNCHANGED <<left_consensus, left_diff>>
            /\ pc' = "right_loop"
            /\ UNCHANGED <<left_labels, right_labels, exc, left_n_labels,
                           right_n_labels, right_assign, right_consensus,
                           right_diff, returned, written>>
            /\ UNCHANGED <<annotVars, combineVars>>
       ELSE Raise("IndexError")

\* lines 210-216
VoteRight ==
    /\ pc = "right_loop"
    /\ IF \A vertex \in 1..right_n_labels : can_tally(right_labels, vertex)
       THEN /\ right_assign' \in assign_outcomes(right_labels, right_n_labels)
            /\ IF compute_diff_consensus # 0
               THEN /\ right_consensus' =
                          [vertex \in 1..right_n_labels |->
                              (CHOOSE w \in most_common(votes(right_labels, vertex)) : TRUE)[2]]
                    /\ right_diff' =
                          [vertex \in 1..right_n_labels |->
                              n_distinct(votes(right_labels, vertex))]
               ELSE UNCHANGED <<right_consensus, right_diff>>
            /\ pc' = "return"
            /\ UNCHANGED <<left_labels, right_labels, exc, left_n_labels,
                           right_n_labels, left_assign, left_consensus,
                           left_diff, returned, written>>
            /\ UNCHANGED <<annotVars, combineVars>>
       ELSE Raise("IndexError")

\* lines 218-223 and the unpacking at 245-249
VoteReturn ==
    /\ pc = "return"
    /\ returned' =
          IF compute_diff_consensus # 0
          THEN <<left_assign, right_assign, left_consensus, right_consensus,
                 left_diff, right_diff>>
          ELSE <<left_assign, right_assign>>
    /\ pc' = "write"
    /\ UNCHANGED <<left_labels, right_labels, exc, left_n_labels, right_n_labels,
                   left_assign, right_assign, left_consensus, right_consensus,
                   left_diff, right_diff, written>>
    /\ UNCHANGED <<annotVars, combineVars>>

-----------------------------------------------------------------------------
(* labeling *)

\* lines 251-271
output_files ==
    IF save_inflated # 0
    THEN <<"lh.pial.labels.vtk", "rh.pial.labels.vtk",
           "lh.inflated.labels.vtk", "rh.inflated.labels.vtk">>
    ELSE <<"lh.pial.labels.vtk", "rh.pial.labels.vtk">>

\* dv[i] of lines 256-271: the scalar vectors written with mesh i
dv(ret) ==
    LET left  == IF compute_diff_consensus # 0
                 THEN <<ret[1], ret[5], ret[3]>> ELSE <<ret[1]>>
        right == IF compute_diff_consensus # 0
                 THEN <<ret[2], ret[6], ret[4]>> ELSE <<ret[2]>>
    IN  IF save_inflated # 0 THEN <<left, right, left, right>>
        ELSE <<left, right>>

\* lines 273-287: one pass of the loop over the input files
WriteFile ==
    /\ pc = "write"
    /\ Len(written) < Len(output_files)
    /\ written' = Append(written,
                         [file |-> output_files[Len(written) + 1],
                          scalars |-> dv(returned)[Len(written) + 1]])
    /\ UNCHANGED <<left_labels, right_labels, pc, exc, left_n_labels,
                   right_n_labels, left_assign, right_assign, left_consensus,
                   right_consensus, left_diff, right_diff, returned>>
    /\ UNCHANGED <<annotVars, combineVars>>

\* line 288
LabelingReturn ==
    /\ pc = "write"
    /\ Len(written) = Len(output_files)
    /\ pc' = "done"
    /\ UNCHANGED <<left_labels, right_labels, exc, left_n_labels,
                   right_n_labels, left_assign, right_assign, left_consensus,
                   right_consensus, left_diff, right_diff, returned, written>>
    /\ UNCHANGED <<annotVars, combineVars>>

\* combine_labels is not running
CombineIdle ==
    /\ label_index = 0
    /\ combined = 0
    /\ recombined = 0

\* read_annot is not running
AnnotIdle ==
    /\ fobj = <<>>
    /\ fpos = 0
    /\ orig_ids = FALSE
    /\ vnum = 0
    /\ labels = <<>>
    /\ ctab_exists = 0
    /\ n_entries = 0
    /\ ctab = <<>>
    /\ names = <<>>
    /\ annot_ret = <<>>

\* the state when labeling calls vote_labels (line 249) on what load_labels
\* returned: one hemisphere ranges over Collections, the other over Siblings
Init ==
    /\ \/ left_labels \in Collections /\ right_labels \in Siblings
       \/ left_labels \in Siblings /\ right_labels \in Collections
    /\ pc = "vote_labels"
    /\ exc = "none"
    /\ left_n_labels = 0
    /\ right_n_labels = 0
    /\ left_assign = <<>>
    /\ right_assign = <<>>
    /\ left_consensus = <<>>
    /\ right_consensus = <<>>
    /\ left_diff = <<>>
    /\ right_diff = <<>>
    /\ returned = <<>>
    /\ written = <<>>
    /\ AnnotIdle
    /\ CombineIdle

Next ==
    \/ VoteEnter
    \/ VoteLeft
    \/ VoteRight
    \/ VoteReturn
    \/ WriteFile
    \/ LabelingReturn

Spec == Init /\ [][Next]_vars

-----------------------------------------------------------------------------
(* read_annot *)

\* longest label vector and largest color table of an annotation file
MaxAnnotVertices == 1

MaxEntries == 2

\* R + G * 2^8 + B * 2^16 + A * 2^24, lines 90-92
packed_legacy(rgba) ==
    rgba[1] + rgba[2] * (2 ^ 8) + rgba[3] * (2 ^ 16) + rgba[4] * (2 ^ 24)

\* R + G * 2^8 + B * 2^16, lines 109-110
packed_v2(rgba) ==
    rgba[1] + rgba[2] * (2 ^ 8) + rgba[3] * (2 ^ 16)

\* np.fromfile(fobj, dt, 1): the next cell, or nothing at the end of the file
read_int(f, p) == IF p < Len(f) THEN <<f[p + 1]>> ELSE <<>>

\* np.fromfile(fobj, dt, n): the next n cells, fewer at the end of the file
read_cells(f, p, n) ==
    LET got == IF p + n <= Len(f) THEN n ELSE Len(f) - p
    IN  [k \in 1..got |-> f[p + k]]

\* One pass of the loops at lines 85-92 and 103-110 from cell p for row i of
\* a table of `rows` rows: [err, pos, name, rgba].  np.fromfile(...)[0] raises
\* IndexError on an empty read; assigning a read of 0, 2 or 3 values to
\* ctab[i, :4] raises ValueError and a read of one value is broadcast; in the
\* extended format a row beyond the table raises IndexError.
read_entry(f, p, structure, i, rows) ==
    LET p1   == IF structure THEN p + 1 ELSE p
        nl   == read_int(f, p1)
        p2   == p1 + 1
        p3   == p2 + nl[1]
        quad == read_cells(f, p3, 4)
        bad(e) == [err |-> e, pos |-> p, name |-> <<>>, rgba |-> <<>>]
    IN  IF structure /\ read_int(f, p) = <<>> THEN bad("IndexError")
        ELSE IF nl = <<>> THEN bad("IndexError")
        ELSE IF p3 > Len(f) THEN bad("IndexError")
        ELSE IF Len(quad) \in {0, 2, 3} THEN bad("ValueError")
        ELSE IF i > rows THEN bad("IndexError")
        ELSE [err |-> "none", pos |-> p3 + Len(quad),
              name |-> read_cells(f, p2, nl[1]),
              rgba |-> IF Len(quad) = 1 THEN Rep(quad[1], 4) ELSE quad]

\* the loop over entries i..count: [err, pos, ctab, names]
RECURSIVE read_entries(_, _, _, _, _, _)
read_entries(f, st, structure, i, count, rows) ==
    IF st.err # "none" \/ i > count THEN st
    ELSE LET e == read_entry(f, st.pos, structure, i, rows)
             packed == IF structure THEN packed_v2(e.rgba) ELSE packed_legacy(e.rgba)
         IN  IF e.err # "none"
             THEN [st EXCEPT !.err = e.err]
             ELSE read_entries(f,
                     [err |-> "none", pos |-> e.pos,
                      ctab |-> [st.ctab EXCEPT ![i] = e.rgba \o <<packed>>],
                      names |-> Append(st.names, e.name)],
                     structure, i + 1, count, rows)

\* np.zeros((n, 5))
zeros(n) == [i \in 1..n |-> <<0, 0, 0, 0, 0>>]

\* ctab[:, -1]
packed_ids(tab) == [i \in 1..Len(tab) |-> tab[i][5]]

\* np.argsort(keys): the 0-based row indices in an order that sorts keys.
\* The default sort is not stable, so rows of equal key come in any order.
argsort(keys) ==
    { o \in [1..Len(keys) -> 0..(Len(keys) - 1)] :
        /\ \A i \in 1..Len(keys) : \A j \in 1..Len(keys) : i # j => o[i] # o[j]
        /\ \A i \in 1..(Len(keys) - 1) : keys[o[i] + 1] <= keys[o[i + 1] + 1] }

\* a changed searchsorted: side right
searchsorted_right(sorted, x) == Cardinality({i \in 1..Len(sorted) : sorted[i] <= x})

\* np.searchsorted(sorted, x), side left: how many elements are below x
searchsorted(sorted, x) == Cardinality({i \in 1..Len(sorted) : sorted[i] < x})

AnnotRaise(e) ==
    /\ pc' = "raised"
    /\ exc' = e
    /\ UNCHANGED <<fobj, orig_ids, vnum, labels, ctab_exists, n_entries,
                   ctab, names, annot_ret>>
    /\ UNCHANGED <<voteVars, combineVars>>

\* lines 71-73
ReadVertices ==
    /\ pc = "read_vertices"
    /\ LET n == read_int(fobj, fpos)
       IN  IF n = <<>>
           THEN fpos' = fpos /\ AnnotRaise("IndexError")
           ELSE LET data == read_cells(fobj, fpos + 1, n[1] * 2)
                IN  IF Len(data) # n[1] * 2
                    THEN fpos' = fpos + 1 + Len(data) /\ AnnotRaise("ValueError")
                    ELSE /\ vnum' = n[1]
                         /\ labels' = [v \in 1..n[1] |-> data[2 * v]]
                         /\ fpos' = fpos + 1 + Len(data)
                         /\ pc' = "read_ctab_exists"
                         /\ UNCHANGED <<exc, fobj, orig_ids, ctab_exists,
                                        n_entries, ctab, names, annot_ret>>
                         /\ UNCHANGED <<voteVars, combineVars>>

\* lines 74-76
ReadCtabExists ==
    /\ pc = "read_ctab_exists"
    /\ LET flag == read_int(fobj, fpos)
       IN  IF flag = <<>>
           THEN fpos' = fpos /\ AnnotRaise("IndexError")
           ELSE IF flag[1] = 0
           THEN fpos' = fpos + 1
                /\ AnnotRaise("Color table not found in annotation file.")
           ELSE /\ ctab_exists' = flag[1]
                /\ fpos' = fpos + 1
                /\ pc' = "read_n_entries"
                /\ UNCHANGED <<exc, fobj, orig_ids, vnum, labels, n_entries,
                               ctab, names, annot_ret>>
                /\ UNCHANGED <<voteVars, combineVars>>

\* a changed version test: only versions above 2 are refused
version_at_most_2(n) == (-n) <= 2

\* lines 94-95: ctab_version = -n_entries is the supported version 2
version_supported(n) == (-n) = 2

\* lines 77-78 and 93-96
ReadNEntries ==
    /\ pc = "read_n_entries"
    /\ LET n == read_int(fobj, fpos)
       IN  IF n = <<>>
           THEN fpos' = fpos /\ AnnotRaise("IndexError")
           ELSE IF n[1] <= 0 /\ ~version_supported(n[1])
           THEN fpos' = fpos + 1
                /\ AnnotRaise("Color table version not supported.")
           ELSE /\ n_entries' = n[1]
                /\ fpos' = fpos + 1
                /\ pc' = IF n[1] > 0 THEN "read_table" ELSE "read_table_v2"
                /\ UNCHANGED <<exc, fobj, orig_ids, vnum, labels, ctab_exists,
                               ctab, names, annot_ret>>
                /\ UNCHANGED <<voteVars, combineVars>>

\* lines 79-92
ReadTable ==
    /\ pc = "read_table"
    /\ LET length == read_int(fobj, fpos)
       IN  IF length = <<>>
           THEN fpos' = fpos /\ AnnotRaise("IndexError")
           ELSE LET orig_tab == read_cells(fobj, fpos + 1, length[1])
                    st == read_entries(fobj,
                              [err |-> "none", pos |-> fpos + 1 + Len(orig_tab),
                               ctab |-> zeros(n_entries), names |-> <<>>],
                              FALSE, 1, n_entries, n_entries)
                IN  IF st.err # "none"
                    THEN fpos' = st.pos /\ AnnotRaise(st.err)
                    ELSE /\ ctab' = st.ctab
                         /\ names' = st.names
                         /\ fpos' = st.pos
                         /\ pc' = "set_alpha"
                         /\ UNCHANGED <<exc, fobj, orig_ids, vnum, labels,
                                        ctab_exists, n_entries, annot_ret>>
                         /\ UNCHANGED <<voteVars, combineVars>>

\* lines 97-110
ReadTableV2 ==
    /\ pc = "read_table_v2"
    /\ LET n      == read_int(fobj, fpos)
           length == read_int(fobj, fpos + 1)
           p      == fpos + 2 + length[1]
           entries_to_read == read_int(fobj, p)
       IN  IF n = <<>>
           THEN fpos' = fpos /\ AnnotRaise("IndexError")
           ELSE IF n[1] < 0
           THEN fpos' = fpos + 1 /\ AnnotRaise("ValueError")
           ELSE IF length = <<>>
           THEN fpos' = fpos + 1 /\ AnnotRaise("IndexError")
           ELSE IF p > Len(fobj) \/ entries_to_read = <<>>
           THEN fpos' = fpos + 2 /\ AnnotRaise("IndexError")
           ELSE LET st == read_entries(fobj,
                              [err |-> "none", pos |-> p + 1,
                               ctab |-> zeros(n[1]), names |-> <<>>],
                              TRUE, 1, entries_to_read[1], n[1])
                IN  IF st.err # "none"
                    THEN fpos' = st.pos /\ AnnotRaise(st.err)
                    ELSE /\ n_entries' = n[1]
                         /\ ctab' = st.ctab
                         /\ names' = st.names
                         /\ fpos' = st.pos
                         /\ pc' = "set_alpha"
                         /\ UNCHANGED <<exc, fobj, orig_ids, vnum, labels,
                                        ctab_exists, annot_ret>>
                         /\ UNCHANGED <<voteVars, combineVars>>

\* line 111
SetAlpha ==
    /\ pc = "set_alpha"
    /\ ctab' = [i \in 1..Len(ctab) |-> [ctab[i] EXCEPT ![4] = 255]]
    /\ pc' = "remap"
    /\ UNCHANGED <<exc, fobj, fpos, orig_ids, vnum, labels, ctab_exists,
                   n_entries, names, annot_ret>>
    /\ UNCHANGED <<voteVars, combineVars>>

\* line 114 for one vertex: ord[np.searchsorted(ctab[ord, -1], label)], as
\* <<id>>, or <<>> when the position found is past the end of ord
remap(ord, tab, label) ==
    LET sorted == [i \in 1..Len(ord) |-> packed_ids(tab)[ord[i] + 1]]
        at     == searchsorted(sorted, label)
    IN  IF at < Len(ord) THEN <<ord[at + 1]>> ELSE <<>>

\* lines 112-115
Remap ==
    /\ pc = "remap"
    /\ IF orig_ids
       THEN /\ annot_ret' = <<labels, ctab, names>>
            /\ pc' = "done"
            /\ UNCHANGED <<exc, fobj, fpos, orig_ids, vnum, labels, ctab_exists,
                           n_entries, ctab, names>>
            /\ UNCHANGED <<voteVars, combineVars>>
       ELSE \E ord \in argsort(packed_ids(ctab)) :
                IF \E v \in 1..Len(labels) : remap(ord, ctab, labels[v]) = <<>>
                THEN fpos' = fpos /\ AnnotRaise("IndexError")
                ELSE /\ labels' = [v \in 1..Len(labels) |-> remap(ord, ctab, labels[v])[1]]
                     /\ annot_ret' = <<labels', ctab, names>>
                     /\ pc' = "done"
                     /\ UNCHANGED <<exc, fobj, fpos, orig_ids, vnum, ctab_exists,
                                    n_entries, ctab, names>>
                     /\ UNCHANGED <<voteVars, combineVars>>

-----------------------------------------------------------------------------
(* Annotation files *)

\* RGBA of the table entries: distinct packed ids, and two colors that differ
\* in alpha only (one packed id in the extended format)
Colors == { <<1, 0, 0, 0>>, <<0, 1, 0, 0>>, <<2, 0, 1, 0>>, <<1, 0, 0, 1>> }

\* raw labels of the vertices: the packed ids of the colors, and values
\* below, between and above them
RawLabelValues ==
    {packed_legacy(c) : c \in Colors} \cup {0, 2, packed_legacy(<<2, 0, 0, 1>>)}

RawVectors == UNION {[1..n -> RawLabelValues] : n \in 0..MaxAnnotVertices}

Tables == UNION {[1..n -> Colors] : n \in 0..MaxEntries}

\* the bytes of the origin path and of the name of entry k
OrigPath == <<47, 0>>

EntryName(k) == <<96 + k>>

RECURSIVE Concat(_)
Concat(seqs) == IF seqs = <<>> THEN <<>> ELSE Head(seqs) \o Concat(Tail(seqs))

\* vertex count, then (vertex id, raw label) pairs
Header(raw) ==
    <<Len(raw)>> \o Concat([v \in 1..Len(raw) |-> <<v - 1, raw[v]>>])

LegacyBody(tab) ==
    <<Len(tab), Len(OrigPath)>> \o OrigPath \o
    Concat([k \in 1..Len(tab) |-> <<Len(EntryName(k))>> \o EntryName(k) \o tab[k]])

ExtendedBody(marker, rows, tab) ==
    <<marker, rows, Len(OrigPath)>> \o OrigPath \o <<Len(tab)>> \o
    Concat([k \in 1..Len(tab) |->
               <<k - 1, Len(EntryName(k))>> \o EntryName(k) \o tab[k]])

LegacyFiles ==
    { Header(raw) \o <<1>> \o LegacyBody(tab) :
        raw \in RawVectors, tab \in Tables \ {<<>>} }

\* the table has as many rows as entries, or one row more
ExtendedFiles ==
    { Header(f[1]) \o <<1>> \o ExtendedBody(-2, Len(f[2]) + f[3], f[2]) :
        f \in RawVectors \X Tables \X {0, 1} }

SampleTable == <<<<1, 0, 0, 0>>>>

\* one entry, a table of no row
OverfullFiles ==
    { Header(raw) \o <<1>> \o ExtendedBody(-2, 0, SampleTable) : raw \in RawVectors }

\* a table_entry_count of 0, -1 or -3, with and without a table after it
OtherVersionFiles ==
    { Header(f[1]) \o <<1>> \o f[3] :
        f \in RawVectors \X {0, -1, -3} \X {<<>>} } \cup
    { Header(f[1]) \o <<1>> \o ExtendedBody(f[2], 1, SampleTable) :
        f \in RawVectors \X {0, -1, -3} }

\* no color table: the file ends after the flag, or goes on
NoTableFiles ==
    { Header(f[1]) \o <<0>> \o f[2] :
        f \in RawVectors \X {<<>>, LegacyBody(SampleTable),
                            ExtendedBody(-2, 1, SampleTable)} }

Prefixes(f) == {SubSeq(f, 1, k) : k \in 0..Len(f)}

\* cut short anywhere
TruncatedFiles ==
    Prefixes(Header(<<1>>) \o <<1>> \o LegacyBody(SampleTable)) \cup
    Prefixes(Header(<<1>>) \o <<1>> \o ExtendedBody(-2, 1, SampleTable))

AnnotFiles ==
    LegacyFiles \cup ExtendedFiles \cup OverfullFiles \cup OtherVersionFiles
    \cup NoTableFiles \cup TruncatedFiles

\* vote_labels and labeling are not running
VoteIdle ==
    /\ left_labels = <<>>
    /\ right_labels = <<>>
    /\ left_n_labels = 0
    /\ right_n_labels = 0
    /\ left_assign = <<>>
    /\ right_assign = <<>>
    /\ left_consensus = <<>>
    /\ right_consensus = <<>>
    /\ left_diff = <<>>
    /\ right_diff = <<>>
    /\ returned = <<>>
    /\ written = <<>>

\* read_annot(filepath, orig_ids) is called on an annotation file
InitAnnot ==
    /\ VoteIdle
    /\ CombineIdle
    /\ fobj \in AnnotFiles
    /\ fpos = 0
    /\ orig_ids \in BOOLEAN
    /\ vnum = 0
    /\ labels = <<>>
    /\ ctab_exists = 0
    /\ n_entries = 0
    /\ ctab = <<>>
    /\ names = <<>>
    /\ annot_ret = <<>>
    /\ pc = "read_vertices"
    /\ exc = "none"

NextAnnot ==
    \/ ReadVertices
    \/ ReadCtabExists
    \/ ReadNEntries
    \/ ReadTable
    \/ ReadTableV2
    \/ SetAlpha
    \/ Remap

SpecAnnot == InitAnnot /\ [][NextAnnot]_vars

-----------------------------------------------------------------------------
(* What the claims about voting speak of *)

Terminal == pc \in {"done", "raised"}

EqualLengths(coll) ==
    \A i \in 1..Len(coll) : \A j \in 1..Len(coll) : Len(coll[i]) = Len(coll[j])

ValidCollection(coll) == Len(coll) >= 1 /\ EqualLengths(coll)

Identical(coll) == Len(coll) >= 1 /\ \A i \in 1..Len(coll) : coll[i] = coll[1]

\* occurrences of label l at vertex v among all the vectors of coll
Occurrences(coll, v, l) == Cardinality({i \in 1..Len(coll) : coll[i][v] = l})

MostFrequent(coll, v, l) ==
    /\ Occurrences(coll, v, l) >= 1
    /\ \A i \in 1..Len(coll) : Occurrences(coll, v, coll[i][v]) <= Occurrences(coll, v, l)

\* the most frequent label at v that is met first when the files are scanned
FirstMostFrequent(coll, v) ==
    LET first == CHOOSE i \in 1..Len(coll) :
                     /\ MostFrequent(coll, v, coll[i][v])
                     /\ \A j \in 1..(i - 1) : ~MostFrequent(coll, v, coll[j][v])
    IN  coll[first][v]

Tied(coll, v) ==
    \E i \in 1..Len(coll) : \E j \in 1..Len(coll) :
        /\ coll[i][v] # coll[j][v]
        /\ MostFrequent(coll, v, coll[i][v])
        /\ MostFrequent(coll, v, coll[j][v])

MajorityVector(coll, assigned) ==
    /\ Len(assigned) = Len(coll[1])
    /\ \A v \in 1..Len(assigned) : MostFrequent(coll, v, assigned[v])

\* the scalars labeling handed to the writer for one output file
Delivered(file) ==
    {written[k].scalars : k \in {n \in 1..Len(written) : written[n].file = file}}

\* C1: for every non-empty collection of N >= 1 vectors of equal length, vote
\* returns a vector of that length whose label at every vertex is a most
\* frequent one among all N values at that vertex (N is not restricted to 21).
C1_MajorityOverAllVectors ==
    (Terminal /\ ValidCollection(left_labels) /\ ValidCollection(right_labels))
    => /\ pc = "done"
       /\ MajorityVector(left_labels, returned[1])
       /\ MajorityVector(right_labels, returned[2])

\* C2: whenever several labels share the maximum frequency at a vertex, the
\* assigned label is the tied label that occurs first in file order.
C2_FirstOccurrenceWinsTies ==
    (pc = "done" /\ ValidCollection(left_labels) /\ ValidCollection(right_labels))
    => /\ \A v \in 1..Len(left_labels[1]) :
              Tied(left_labels, v) => returned[1][v] = FirstMostFrequent(left_labels, v)
       /\ \A v \in 1..Len(right_labels[1]) :
              Tied(right_labels, v) => returned[2][v] = FirstMostFrequent(right_labels, v)

C5_UnequalLengthsRaise ==
    (/\ Terminal
     /\ Len(left_labels) = VOTERS
     /\ Len(right_labels) = VOTERS
     /\ ~EqualLengths(left_labels) \/ ~EqualLengths(right_labels))
    => pc = "raised" /\ returned = <<>>

\* C6: a vote over N >= 1 copies of a vector x returns x as assigned and, where
\* consensus and diversity are returned, consensus N and diversity 1 at every
\* vertex.
C6_IdenticalVectors ==
    (Terminal /\ Identical(left_labels) /\ Identical(right_labels))
    => /\ pc = "done"
       /\ returned[1] = left_labels[1]
       /\ returned[2] = right_labels[1]
       /\ Len(returned) = 6 =>
              /\ returned[3] = Rep(Len(left_labels), Len(left_labels[1]))
              /\ returned[4] = Rep(Len(right_labels), Len(right_labels[1]))
              /\ returned[5] = Rep(1, Len(left_labels[1]))
              /\ returned[6] = Rep(1, Len(right_labels[1]))

\* C7: an error in one hemisphere's vote aborts only that hemisphere: the
\* assigned vector of a valid sibling hemisphere is still computed and
\* delivered.  (Stated for a sibling of exactly the 21 files the code tallies.)
C7_SiblingStillDelivered ==
    Terminal
    => /\ (ValidCollection(left_labels) /\ Len(left_labels) = VOTERS)
              => \E d \in Delivered("lh.pial.labels.vtk") :
                     MajorityVector(left_labels, d[1])
       /\ (ValidCollection(right_labels) /\ Len(right_labels) = VOTERS)
              => \E d \in Delivered("rh.pial.labels.vtk") :
                     MajorityVector(right_labels, d[1])

-----------------------------------------------------------------------------
(* combine_labels applied to a label id, and again to its result *)

\* label ids range over -MaxLabelId .. MaxLabelId
MaxLabelId == 40

Combine ==
    /\ pc = "combine"
    /\ combined' = combine_labels(label_index)
    /\ pc' = "combine_again"
    /\ UNCHANGED <<exc, label_index, recombined, voteVars, annotVars>>

CombineAgain ==
    /\ pc = "combine_again"
    /\ recombined' = combine_labels(combined)
    /\ pc' = "done"
    /\ UNCHANGED <<exc, label_index, combined, voteVars, annotVars>>

InitCombine ==
    /\ VoteIdle
    /\ AnnotIdle
    /\ label_index \in (-MaxLabelId)..MaxLabelId
    /\ combined = 0
    /\ recombined = 0
    /\ pc = "combine"
    /\ exc = "none"

NextCombine ==
    \/ Combine
    \/ CombineAgain

SpecCombine == InitCombine /\ [][NextCombine]_vars

\* C3: combine is idempotent, its result is the id itself or one of 2, 3, 18;
\* 10, 23, 26 map to 2, 27 maps to 3, 19 and 20 map to 18, every other id maps
\* to itself.
C3_CombineTable ==
    pc = "done"
    => /\ recombined = combined
       /\ combined \in {2, 3, 18} \cup {label_index}
       /\ label_index \in {10, 23, 26} => combined = 2
       /\ label_index = 27 => combined = 3
       /\ label_index \in {19, 20} => combined = 18
       /\ label_index \notin {10, 23, 26, 27, 19, 20} => combined = label_index

C3_Witness ==
    /\ pc = "done"
    /\ label_index = 20
    /\ combined = 18
    /\ recombined = 18

-----------------------------------------------------------------------------
(* What the claims about read_annot speak of *)

\* the file holds the vertex pairs and the color-table flag
HasFlag == Len(fobj) >= 1 /\ fobj[1] >= 0 /\ Len(fobj) >= 2 * fobj[1] + 2

\* cells up to and including the flag
FlagEnd == 2 * fobj[1] + 2

FlagCell == fobj[FlagEnd]

HasCount == HasFlag /\ Len(fobj) >= FlagEnd + 1

\* table_entry_count as stored in the file
CountCell == fobj[FlagEnd + 1]

\* the raw label of vertex v (1-based) as stored in the file
RawLabel(v) == fobj[1 + 2 * v]

Present(x) == \E i \in 1..Len(ctab) : ctab[i][5] = x

\* 0-based position of x among the packed ids sorted ascending
SortedRank(x) == Cardinality({i \in 1..Len(ctab) : ctab[i][5] < x})

AscendingInFile == \A i \in 1..(Len(ctab) - 1) : ctab[i][5] < ctab[i + 1][5]

Remapped == pc = "done" /\ ~orig_ids

\* C8: during id remapping a vertex whose raw label equals no packed id of the
\* table makes the decode fail; no label vector is returned for such a file.
C8_AbsentLabelFails ==
    Remapped => \A v \in 1..vnum : Present(RawLabel(v))

\* C9 as stated: the output label of a vertex whose raw label is in the table
\* is the rank of the raw label among the packed ids sorted ascending, for
\* every order of the table in the file.
C9_LabelIsSortedRank ==
    Remapped
    => \A v \in 1..vnum : Present(RawLabel(v)) => labels[v] = SortedRank(RawLabel(v))

\* C9 amended: the output label of a vertex whose raw label is in the table is
\* the 0-based position in the file's table of an entry with that packed id;
\* it is the sorted rank when the table is in ascending order in the file.
C9_LabelIsTableIndex ==
    Remapped
    => \A v \in 1..vnum :
           Present(RawLabel(v))
           => /\ labels[v] \in 0..(Len(ctab) - 1)
              /\ ctab[labels[v] + 1][5] = RawLabel(v)
              /\ AscendingInFile => labels[v] = SortedRank(RawLabel(v))

C9_Witness ==
    /\ Remapped
    /\ vnum >= 1
    /\ Len(ctab) >= 2
    /\ ~AscendingInFile
    /\ Present(RawLabel(1))
    /\ labels[1] # SortedRank(RawLabel(1))
    /\ ctab[labels[1] + 1][5] = RawLabel(1)

\* C10: with a non-zero color-table flag and table_entry_count <= 0 the
\* extended path is taken only for -2; every other value <= 0 ends in the
\* unsupported-version error with nothing returned; a zero flag ends in the
\* missing-color-table error before table_entry_count is read.
C10_VersionGate ==
    /\ (HasFlag /\ pc \notin {"read_vertices", "read_ctab_exists"} /\ FlagCell = 0)
       => /\ pc = "raised"
          /\ exc = "Color table not found in annotation file."
          /\ fpos = FlagEnd
          /\ annot_ret = <<>>
    /\ (/\ HasCount
        /\ pc \notin {"read_vertices", "read_ctab_exists", "read_n_entries"}
        /\ FlagCell # 0
        /\ CountCell <= 0
        /\ CountCell # -2)
       => /\ pc = "raised"
          /\ exc = "Color table version not supported."
          /\ fpos = FlagEnd + 1
          /\ annot_ret = <<>>
    /\ pc = "read_table_v2" => (HasCount /\ FlagCell # 0 /\ CountCell = -2)
    /\ (HasCount /\ FlagCell # 0 /\ CountCell = -2)
       => /\ pc # "read_table"
          /\ exc # "Color table version not supported."

C10_Witness ==
    /\ HasCount
    /\ FlagCell # 0
    /\ CountCell = 0
    /\ Len(fobj) > FlagEnd + 1
    /\ pc = "raised"
    /\ exc = "Color table version not supported."

=============================================================================
